---- MODULE Spec2Model ----
(***************************************************************************)
(* Model of madmin-go's legacy health-info records (health-old.go): the    *)
(* record types with their JSON struct tags, the String()/JSON() renderers *)
(* built on encoding/json, and the accessors GetError, GetStatus,          *)
(* GetTimestamp and GetOwner.                                              *)
(*                                                                         *)
(* A Go string is a sequence of units: "a" is an ordinary character,       *)
(* "xFF" a byte that is not valid UTF-8, "uFFFD" the replacement rune.     *)
(* A Go slice is [nil, e]: nil tells a nil slice from an empty one.        *)
(* A float is named by its literal ("0", "1.5") or is "NaN" / "+Inf".      *)
(* A time.Time is [year, mono, loc]: the wall clock year, whether a        *)
(* monotonic reading is attached, and the location.                        *)
(* JSON text is a sequence of tokens [t, k, s].                            *)
(***************************************************************************)
EXTENDS Integers, Sequences, FiniteSets, TLC

VARIABLES typ, info, decoded, op, ret

vars == <<typ, info, decoded, op, ret>>

\* Longest list (slice) the enumerated records carry.
MaxLen == 1

----------------------------------------------------------------------------
(* Struct declarations: one entry per field, in declaration order.         *)

F(name, key, omitempty, kind, elem) ==
    [name |-> name, key |-> key, omitempty |-> omitempty, kind |-> kind, elem |-> elem]

\* Variant: the sys field tagged with the error field's key.
HealthInfoV0DupKey ==
    << F("TimeStamp", "timestamp", TRUE, "time", ""),
       F("Error", "error", TRUE, "string", ""),
       F("Sys", "error", TRUE, "struct", "SysHealthInfo") >>

HealthInfoV0 ==
    << F("TimeStamp", "timestamp", TRUE, "time", ""),
       F("Error", "error", TRUE, "string", ""),
       F("Sys", "sys", TRUE, "struct", "SysHealthInfo") >>

\* Variant: the error field tagged without omitempty.
HealthInfoV2ErrAlways ==
    << F("Version", "version", FALSE, "string", ""),
       F("Error", "error", FALSE, "string", ""),
       F("TimeStamp", "timestamp", TRUE, "time", ""),
       F("Sys", "sys", TRUE, "struct", "SysInfo"),
       F("Perf", "perf", TRUE, "struct", "PerfInfo"),
       F("Minio", "minio", TRUE, "struct", "MinioHealthInfo") >>

HealthInfoV2 ==
    << F("Version", "version", FALSE, "string", ""),
       F("Error", "error", TRUE, "string", ""),
       F("TimeStamp", "timestamp", TRUE, "time", ""),
       F("Sys", "sys", TRUE, "struct", "SysInfo"),
       F("Perf", "perf", TRUE, "struct", "PerfInfo"),
       F("Minio", "minio", TRUE, "struct", "MinioHealthInfo") >>

Latency ==
    << F("Avg", "avg", FALSE, "float", ""),
       F("Max", "max", FALSE, "float", ""),
       F("Min", "min", FALSE, "float", ""),
       F("Percentile50", "percentile_50", FALSE, "float", ""),
       F("Percentile90", "percentile_90", FALSE, "float", ""),
       F("Percentile99", "percentile_99", FALSE, "float", "") >>

Throughput ==
    << F("Avg", "avg", FALSE, "int", ""),
       F("Max", "max", FALSE, "int", ""),
       F("Min", "min", FALSE, "int", ""),
       F("Percentile50", "percentile_50", FALSE, "int", ""),
       F("Percentile90", "percentile_90", FALSE, "int", ""),
       F("Percentile99", "percentile_99", FALSE, "int", "") >>

\* Variant: the path field tagged omitempty.
DrivePerfInfoPathOptional ==
    << F("Error", "error", TRUE, "string", ""),
       F("Path", "path", TRUE, "string", ""),
       F("Latency", "latency", TRUE, "struct", "Latency"),
       F("Throughput", "throughput", TRUE, "struct", "Throughput") >>

DrivePerfInfo ==
    << F("Error", "error", TRUE, "string", ""),
       F("Path", "path", FALSE, "string", ""),
       F("Latency", "latency", TRUE, "struct", "Latency"),
       F("Throughput", "throughput", TRUE, "struct", "Throughput") >>

\* The embedded struct every perf record starts with; its fields are
\* promoted into the embedding record's JSON object.
NodeCommon ==
    << F("Addr", "addr", FALSE, "string", ""),
       F("Error", "error", TRUE, "string", "") >>

DrivePerfInfos ==
    NodeCommon \o
    << F("SerialPerf", "serial_perf", TRUE, "slice", "DrivePerfInfo"),
       F("ParallelPerf", "parallel_perf", TRUE, "slice", "DrivePerfInfo") >>

PeerNetPerfInfo ==
    NodeCommon \o
    << F("Latency", "latency", TRUE, "struct", "Latency"),
       F("Throughput", "throughput", TRUE, "struct", "Throughput") >>

NetPerfInfo ==
    NodeCommon \o
    << F("RemotePeers", "remote_peers", TRUE, "slice", "PeerNetPerfInfo") >>

PerfInfo ==
    << F("Drives", "drives", TRUE, "slice", "DrivePerfInfos"),
       F("Net", "net", TRUE, "slice", "NetPerfInfo"),
       F("NetParallel", "net_parallel", TRUE, "struct", "NetPerfInfo") >>

SysHealthInfo ==
    << F("CPUInfo", "cpus", TRUE, "slice", "ServerCPUInfo"),
       F("DiskHwInfo", "drives", TRUE, "slice", "ServerDiskHwInfo"),
       F("OsInfo", "osinfos", TRUE, "slice", "ServerOsInfo"),
       F("MemInfo", "meminfos", TRUE, "slice", "ServerMemInfo"),
       F("ProcInfo", "procinfos", TRUE, "slice", "ServerProcInfo"),
       F("Error", "error", TRUE, "string", "") >>

ServerProcInfo ==
    << F("Addr", "addr", FALSE, "string", ""),
       F("Processes", "processes", TRUE, "slice", "SysProcess"),
       F("Error", "error", TRUE, "string", "") >>

SysProcess ==
    << F("Pid", "pid", FALSE, "int", ""),
       F("Background", "background", TRUE, "bool", ""),
       F("CPUPercent", "cpupercent", TRUE, "float", ""),
       F("Children", "children", TRUE, "slice", "int32"),
       F("CmdLine", "cmd", TRUE, "string", ""),
       F("ConnectionCount", "connection_count", TRUE, "int", ""),
       F("CreateTime", "createtime", TRUE, "int", ""),
       F("Cwd", "cwd", TRUE, "string", ""),
       F("Exe", "exe", TRUE, "string", ""),
       F("Gids", "gids", TRUE, "slice", "int32"),
       F("IsRunning", "isrunning", TRUE, "bool", ""),
       F("MemPercent", "mempercent", TRUE, "float", ""),
       F("Name", "name", TRUE, "string", ""),
       F("Nice", "nice", TRUE, "int", ""),
       F("NumFds", "numfds", TRUE, "int", ""),
       F("NumThreads", "numthreads", TRUE, "int", ""),
       F("Parent", "parent", TRUE, "int", ""),
       F("Ppid", "ppid", TRUE, "int", ""),
       F("Status", "status", TRUE, "string", ""),
       F("Tgid", "tgid", TRUE, "int", ""),
       F("Uids", "uids", TRUE, "slice", "int32"),
       F("Username", "username", TRUE, "string", "") >>

ServerMemInfo ==
    << F("Addr", "addr", FALSE, "string", ""),
       F("Error", "error", TRUE, "string", "") >>

ServerOsInfo ==
    << F("Addr", "addr", FALSE, "string", ""),
       F("Error", "error", TRUE, "string", "") >>

\* Variant: the error field tagged without omitempty.
ServerCPUInfoErrAlways ==
    << F("Addr", "addr", FALSE, "string", ""),
       F("Error", "error", FALSE, "string", "") >>

ServerCPUInfo ==
    << F("Addr", "addr", FALSE, "string", ""),
       F("Error", "error", TRUE, "string", "") >>

ServerDiskHwInfo ==
    << F("Addr", "addr", FALSE, "string", ""),
       F("Error", "error", TRUE, "string", "") >>

\* The V2 sections declared in other files of the package: a nested section
\* carrying its own optional error string.
SysInfo ==
    << F("Error", "error", TRUE, "string", "") >>

MinioHealthInfo ==
    << F("Error", "error", TRUE, "string", "") >>

Fields(T) ==
    CASE T = "HealthInfoV0" -> HealthInfoV0
      [] T = "HealthInfoV2" -> HealthInfoV2
      [] T = "Latency" -> Latency
      [] T = "Throughput" -> Throughput
      [] T = "DrivePerfInfo" -> DrivePerfInfo
      [] T = "DrivePerfInfos" -> DrivePerfInfos
      [] T = "PeerNetPerfInfo" -> PeerNetPerfInfo
      [] T = "NetPerfInfo" -> NetPerfInfo
      [] T = "PerfInfo" -> PerfInfo
      [] T = "SysHealthInfo" -> SysHealthInfo
      [] T = "ServerProcInfo" -> ServerProcInfo
      [] T = "SysProcess" -> SysProcess
      [] T = "ServerMemInfo" -> ServerMemInfo
      [] T = "ServerOsInfo" -> ServerOsInfo
      [] T = "ServerCPUInfo" -> ServerCPUInfo
      [] T = "ServerDiskHwInfo" -> ServerDiskHwInfo
      [] T = "SysInfo" -> SysInfo
      [] T = "MinioHealthInfo" -> MinioHealthInfo

\* The kind of a slice's elements: []int32, or a slice of records.
ElemKind(elem) == IF elem = "int32" THEN "int" ELSE "struct"

----------------------------------------------------------------------------
(* Zero values.                                                            *)

NilSlice == [nil |-> TRUE, e |-> <<>>]

Slice(s) == [nil |-> FALSE, e |-> s]

TimeZero == [year |-> 1, mono |-> FALSE, loc |-> "UTC"]

RECURSIVE ZeroValue(_, _)
ZeroValue(kind, elem) ==
    CASE kind = "string" -> <<>>
      [] kind = "bool" -> FALSE
      [] kind = "int" -> 0
      [] kind = "float" -> "0"
      [] kind = "time" -> TimeZero
      [] kind = "slice" -> NilSlice
      [] kind = "struct" ->
           LET fs == Fields(elem) IN
           [n \in {fs[i].name : i \in 1..Len(fs)} |->
               LET f == fs[CHOOSE i \in 1..Len(fs) : fs[i].name = n] IN
               ZeroValue(f.kind, f.elem)]

Zero(T) == ZeroValue("struct", T)

----------------------------------------------------------------------------
(* encoding/json as the renderers use it: json.Marshal.                    *)

Tok(t, k, s) == [t |-> t, k |-> k, s |-> s]

Punct(c) == Tok("punct", c, <<>>)

IsPunct(tk, c) == tk.t = "punct" /\ tk.k = c

\* Sample domains of the scalar field types.
Years == {1, 2022, 10000}

Ints == {0, 7}

UnsupportedFloats == {"NaN", "+Inf"}

\* A string is written as valid UTF-8: each invalid byte becomes U+FFFD.
Coerce(s) == [i \in 1..Len(s) |-> IF s[i] = "xFF" THEN "uFFFD" ELSE s[i]]

\* omitempty: false, 0, the empty string and an empty or nil slice are
\* empty; a struct value (time.Time included) never is.
isEmptyValue(kind, v) ==
    CASE kind = "string" -> Len(v) = 0
      [] kind = "bool" -> ~v
      [] kind = "int" -> v = 0
      [] kind = "float" -> v = "0"
      [] kind = "slice" -> Len(v.e) = 0
      [] OTHER -> FALSE

\* time.Time.MarshalJSON: RFC 3339, refused outside years 0..9999.
TimeMarshalJSON(t) ==
    IF t.year < 0 \/ t.year > 9999
    THEN Tok("err", "", <<>>)
    ELSE Tok("str", "", <<ToString(t.year), IF t.loc = "UTC" THEN "Z" ELSE "+01:00">>)

RECURSIVE EncValue(_, _, _), EncFields(_, _, _, _), EncElems(_, _, _)
EncValue(kind, elem, v) ==
    CASE kind = "string" -> <<Tok("str", "", Coerce(v))>>
      [] kind = "bool" -> <<Tok("lit", IF v THEN "true" ELSE "false", <<>>)>>
      [] kind = "int" -> <<Tok("num", ToString(v), <<>>)>>
      [] kind = "float" ->
           IF v \in UnsupportedFloats THEN <<Tok("err", "", <<>>)>>
           ELSE <<Tok("num", v, <<>>)>>
      [] kind = "time" -> <<TimeMarshalJSON(v)>>
      [] kind = "slice" ->
           IF v.nil THEN <<Tok("lit", "null", <<>>)>>
           ELSE <<Punct("[")>> \o EncElems(elem, v.e, 1) \o <<Punct("]")>>
      [] kind = "struct" ->
           <<Punct("{")>> \o EncFields(Fields(elem), v, 1, TRUE) \o <<Punct("}")>>

EncFields(fs, v, i, first) ==
    IF i > Len(fs) THEN <<>>
    ELSE LET f == fs[i] IN
         IF f.omitempty /\ isEmptyValue(f.kind, v[f.name])
         THEN EncFields(fs, v, i + 1, first)
         ELSE (IF first THEN <<>> ELSE <<Punct(",")>>)
              \o <<Tok("key", f.key, <<>>), Punct(":")>>
              \o EncValue(f.kind, f.elem, v[f.name])
              \o EncFields(fs, v, i + 1, FALSE)

EncElems(elem, s, i) ==
    IF i > Len(s) THEN <<>>
    ELSE (IF i = 1 THEN <<>> ELSE <<Punct(",")>>)
         \o EncValue(ElemKind(elem), elem, s[i])
         \o EncElems(elem, s, i + 1)

\* json.Marshal(v): the compact text, or an error when a value has no JSON
\* form.
Marshal(T, v) ==
    LET data == EncValue("struct", T, v) IN
    IF \E i \in 1..Len(data) : data[i].t = "err"
    THEN [err |-> TRUE, data |-> <<>>]
    ELSE [err |-> FALSE, data |-> data]

(* json.MarshalIndent(v, " ", "    "): Marshal, then Indent.                *)

WS(c) == Tok("ws", c, <<>>)

appendNewline(depth) ==
    <<WS("\n"), WS(" ")>> \o [j \in 1..depth |-> WS("    ")]

IsOpen(tk) == IsPunct(tk, "{") \/ IsPunct(tk, "[")

IsEnd(tk) == IsPunct(tk, "}") \/ IsPunct(tk, "]")

\* Indent walks the compact text once, keeping a nesting depth; an empty
\* object or array stays "{}" / "[]" and adds no depth.  The depth in force
\* at token i is the count of non-empty brackets opened before i minus
\* those closed before i.
IndentDepth(src, i) ==
    Cardinality({j \in 1..(i - 1) : IsOpen(src[j]) /\ ~IsEnd(src[j + 1])})
    - Cardinality({j \in 2..(i - 1) : IsEnd(src[j]) /\ ~IsOpen(src[j - 1])})

\* What Indent writes for token i.
IndentPiece(src, i) ==
    LET c == src[i]
        needIndent == i > 1 /\ IsOpen(src[i - 1])
        depth == IndentDepth(src, i)
        lead == IF needIndent /\ ~IsEnd(c) THEN appendNewline(depth) ELSE <<>>
    IN CASE IsPunct(c, ",") -> lead \o <<c>> \o appendNewline(depth)
         [] IsPunct(c, ":") -> lead \o <<c, WS(" ")>>
         [] IsEnd(c) ->
              IF needIndent THEN <<c>> ELSE Append(appendNewline(depth - 1), c)
         [] OTHER -> Append(lead, c)

RECURSIVE Flatten(_, _, _)
Flatten(pieces, lo, hi) ==
    IF lo > hi THEN <<>>
    ELSE IF lo = hi THEN pieces[lo]
    ELSE LET mid == (lo + hi) \div 2 IN
         Flatten(pieces, lo, mid) \o Flatten(pieces, mid + 1, hi)

appendIndent(src) ==
    Flatten([i \in 1..Len(src) |-> IndentPiece(src, i)], 1, Len(src))

MarshalIndent(T, v) ==
    LET b == Marshal(T, v) IN
    IF b.err THEN b
    ELSE [err |-> FALSE, data |-> appendIndent(b.data)]

----------------------------------------------------------------------------
(* Reading the text back: json.Unmarshal into the same record type.        *)

StripWS(text) == SelectSeq(text, LAMBDA tk : tk.t # "ws")

Node(t, k, s, m) == [t |-> t, k |-> k, s |-> s, m |-> m]

RECURSIVE ParseValue(_, _), ParseMembers(_, _, _), ParseElems(_, _, _)
ParseValue(toks, i) ==
    LET tk == toks[i] IN
    CASE IsPunct(tk, "{") ->
           IF IsPunct(toks[i + 1], "}")
           THEN [v |-> Node("obj", "", <<>>, <<>>), i |-> i + 2]
           ELSE ParseMembers(toks, i + 1, <<>>)
      [] IsPunct(tk, "[") ->
           IF IsPunct(toks[i + 1], "]")
           THEN [v |-> Node("arr", "", <<>>, <<>>), i |-> i + 2]
           ELSE ParseElems(toks, i + 1, <<>>)
      [] OTHER -> [v |-> Node(tk.t, tk.k, tk.s, <<>>), i |-> i + 1]

ParseMembers(toks, i, acc) ==
    LET r == ParseValue(toks, i + 2)
        acc2 == Append(acc, [k |-> toks[i].k, v |-> r.v])
    IN IF IsPunct(toks[r.i], ",")
       THEN ParseMembers(toks, r.i + 1, acc2)
       ELSE [v |-> Node("obj", "", <<>>, acc2), i |-> r.i + 1]

ParseElems(toks, i, acc) ==
    LET r == ParseValue(toks, i)
        acc2 == Append(acc, [k |-> "", v |-> r.v])
    IN IF IsPunct(toks[r.i], ",")
       THEN ParseElems(toks, r.i + 1, acc2)
       ELSE [v |-> Node("arr", "", <<>>, acc2), i |-> r.i + 1]

\* The JSON value a text denotes (whitespace between tokens is skipped).
Parse(text) == ParseValue(StripWS(text), 1).v

HasKey(node, key) == \E j \in 1..Len(node.m) : node.m[j].k = key

\* The member a key names; of duplicates the last one wins.
Member(node, key) ==
    LET j == CHOOSE j \in 1..Len(node.m) :
                 /\ node.m[j].k = key
                 /\ \A l \in (j + 1)..Len(node.m) : node.m[l].k # key
    IN node.m[j].v

\* time.Time.UnmarshalJSON: no monotonic reading; "Z" reads as UTC, an
\* offset as a fixed zone.
TimeUnmarshalJSON(node) ==
    [year |-> CHOOSE y \in Years : ToString(y) = node.s[1],
     mono |-> FALSE,
     loc |-> IF node.s[2] = "Z" THEN "UTC" ELSE "Fixed"]

RECURSIVE FromJSON(_, _, _)
FromJSON(kind, elem, node) ==
    CASE kind = "string" -> node.s
      [] kind = "bool" -> node.k = "true"
      [] kind = "int" -> CHOOSE n \in Ints : ToString(n) = node.k
      [] kind = "float" -> node.k
      [] kind = "time" -> TimeUnmarshalJSON(node)
      [] kind = "slice" ->
           IF node.t = "lit" THEN NilSlice
           ELSE Slice([j \in 1..Len(node.m) |->
                          FromJSON(ElemKind(elem), elem, node.m[j].v)])
      [] kind = "struct" ->
           LET fs == Fields(elem) IN
           [n \in {fs[i].name : i \in 1..Len(fs)} |->
               LET f == fs[CHOOSE i \in 1..Len(fs) : fs[i].name = n] IN
               IF HasKey(node, f.key)
               THEN FromJSON(f.kind, f.elem, Member(node, f.key))
               ELSE ZeroValue(f.kind, f.elem)]

\* The same JSON value with the members of every object in the opposite
\* order (the elements of an array keep theirs).
RECURSIVE Reorder(_)
Reorder(node) ==
    LET n == Len(node.m) IN
    IF node.t = "obj"
    THEN [node EXCEPT !.m = [j \in 1..n |->
                                [k |-> node.m[n + 1 - j].k, v |-> Reorder(node.m[n + 1 - j].v)]]]
    ELSE [node EXCEPT !.m = [j \in 1..n |-> [k |-> node.m[j].k, v |-> Reorder(node.m[j].v)]]]

Unmarshal(T, text, reversed) ==
    FromJSON("struct", T, IF reversed THEN Reorder(Parse(text)) ELSE Parse(text))

----------------------------------------------------------------------------
(* The records a caller can build: every field type's sample values, one   *)
(* field at a time away from the zero record, and the populated record.    *)

Strings == {<<>>, <<"a">>, <<"xFF">>}

Floats == {"0", "1.5"} \cup UnsupportedFloats

TimeUTC == [year |-> 2022, mono |-> FALSE, loc |-> "UTC"]

\* time.Now(): a local time with a monotonic clock reading.
TimeNow == [year |-> 2022, mono |-> TRUE, loc |-> "Local"]

Times == {TimeZero, TimeUTC, TimeNow, [year |-> 10000, mono |-> FALSE, loc |-> "UTC"]}

RECURSIVE Full(_, _)
Full(kind, elem) ==
    CASE kind = "string" -> <<"a">>
      [] kind = "bool" -> TRUE
      [] kind = "int" -> 7
      [] kind = "float" -> "1.5"
      [] kind = "time" -> TimeUTC
      [] kind = "slice" -> Slice(<<Full(ElemKind(elem), elem)>>)
      [] kind = "struct" ->
           LET fs == Fields(elem) IN
           [n \in {fs[i].name : i \in 1..Len(fs)} |->
               LET f == fs[CHOOSE i \in 1..Len(fs) : fs[i].name = n] IN
               Full(f.kind, f.elem)]

SeqsUpTo(S, n) == UNION {[1..k -> S] : k \in 0..n}

RECURSIVE Values(_, _)
Values(kind, elem) ==
    CASE kind = "string" -> Strings
      [] kind = "bool" -> BOOLEAN
      [] kind = "int" -> Ints
      [] kind = "float" -> Floats
      [] kind = "time" -> Times
      [] kind = "slice" ->
           LET ek == ElemKind(elem)
               core == {ZeroValue(ek, elem), Full(ek, elem)}
           IN {NilSlice}
              \cup {Slice(<<x>>) : x \in Values(ek, elem)}
              \cup {Slice(s) : s \in SeqsUpTo(core, MaxLen)}
      [] kind = "struct" ->
           LET fs == Fields(elem)
               z == ZeroValue("struct", elem)
           IN {z, Full("struct", elem)}
              \cup UNION {{[z EXCEPT ![fs[i].name] = x] : x \in Values(fs[i].kind, fs[i].elem)} :
                            i \in 1..Len(fs)}

\* Reports: the records above, alone and under a failed top-level error.
Reports(T) ==
    LET base == Values("struct", T) IN
    base \cup {[x EXCEPT !.Error = <<"a">>] : x \in base}

----------------------------------------------------------------------------
(* The methods.                                                            *)

Panic == [kind |-> "panic", val |-> <<>>]

Text(data) == [kind |-> "text", val |-> data]

StringV2(i) ==
    LET r == Marshal("HealthInfoV2", i) IN
    IF r.err THEN Panic ELSE Text(r.data)

\* Variant: the error of MarshalIndent is dropped instead of raised.
JSONV2IgnoreErr(i) ==
    Text(MarshalIndent("HealthInfoV2", i).data)

JSONV2(i) ==
    LET r == MarshalIndent("HealthInfoV2", i) IN
    IF r.err THEN Panic ELSE Text(r.data)

\* Variant: falls back to the system section's error.
GetErrorNested(i) == IF i.Error # <<>> THEN i.Error ELSE i.Sys.Error

GetError(i) == i.Error

\* Variant: the comparison inverted.
GetStatusInverted(i) == IF i.Error = <<>> THEN "error" ELSE "success"

GetStatus(i) == IF i.Error # <<>> THEN "error" ELSE "success"

GetTimestamp(i) == i.TimeStamp

StringV0(i) ==
    LET r == Marshal("HealthInfoV0", i) IN
    IF r.err THEN Panic ELSE Text(r.data)

JSONV0(i) ==
    LET r == MarshalIndent("HealthInfoV0", i) IN
    IF r.err THEN Panic ELSE Text(r.data)

GetOwner(sp) == sp.Username

----------------------------------------------------------------------------
(* State: the record under inspection (typ, info), the record read back    *)
(* from its text (decoded), the last call (op) and what it returned (ret). *)

Targets == {"info", "decoded"}

Subject(tgt) == IF tgt = "info" THEN info ELSE decoded.val

CanCall(T, tgt) == typ = T /\ (tgt = "decoded" => decoded.ok)

Call(name, tgt, result) ==
    /\ op' = [name |-> name, tgt |-> tgt]
    /\ ret' = result
    /\ UNCHANGED <<typ, info, decoded>>

Init ==
    /\ typ \in {"HealthInfoV0", "HealthInfoV2", "SysProcess"}
    /\ info \in IF typ = "SysProcess" THEN Values("struct", typ) ELSE Reports(typ)
    /\ decoded = [ok |-> FALSE, val |-> Zero(typ)]
    /\ op = [name |-> "new", tgt |-> "info"]
    /\ ret = [kind |-> "none", val |-> <<>>]

CallStringV2(tgt) ==
    /\ CanCall("HealthInfoV2", tgt)
    /\ Call("String", tgt, StringV2(Subject(tgt)))

CallJSONV2(tgt) ==
    /\ CanCall("HealthInfoV2", tgt)
    /\ Call("JSON", tgt, JSONV2(Subject(tgt)))

CallGetError(tgt) ==
    /\ CanCall("HealthInfoV2", tgt)
    /\ Call("GetError", tgt, [kind |-> "string", val |-> GetError(Subject(tgt))])

\* Variant: reading the status clears the error of the record.
CallGetStatusResets(tgt) ==
    /\ CanCall("HealthInfoV2", tgt)
    /\ op' = [name |-> "GetStatus", tgt |-> tgt]
    /\ ret' = [kind |-> "status", val |-> GetStatus(Subject(tgt))]
    /\ info' = [info EXCEPT !.Error = <<>>]
    /\ UNCHANGED <<typ, decoded>>

CallGetStatus(tgt) ==
    /\ CanCall("HealthInfoV2", tgt)
    /\ Call("GetStatus", tgt, [kind |-> "status", val |-> GetStatus(Subject(tgt))])

CallGetTimestamp(tgt) ==
    /\ CanCall("HealthInfoV2", tgt)
    /\ Call("GetTimestamp", tgt, [kind |-> "time", val |-> GetTimestamp(Subject(tgt))])

CallStringV0(tgt) ==
    /\ CanCall("HealthInfoV0", tgt)
    /\ Call("String", tgt, StringV0(Subject(tgt)))

CallJSONV0(tgt) ==
    /\ CanCall("HealthInfoV0", tgt)
    /\ Call("JSON", tgt, JSONV0(Subject(tgt)))

CallGetOwner ==
    /\ typ = "SysProcess"
    /\ Call("GetOwner", "info", [kind |-> "string", val |-> GetOwner(info)])

\* The consumer's side: the text just rendered is read back into a record
\* of the same type, its fields met in the written or in another order.
CallUnmarshal ==
    /\ typ \in {"HealthInfoV0", "HealthInfoV2"}
    /\ op.name \in {"String", "JSON"}
    /\ ret.kind = "text"
    /\ \E reversed \in BOOLEAN :
           decoded' = [ok |-> TRUE, val |-> Unmarshal(typ, ret.val, reversed)]
    /\ op' = [name |-> "Unmarshal", tgt |-> op.tgt]
    /\ UNCHANGED <<typ, info, ret>>

Next ==
    \/ \E tgt \in Targets : CallStringV2(tgt)
    \/ \E tgt \in Targets : CallJSONV2(tgt)
    \/ \E tgt \in Targets : CallGetError(tgt)
    \/ \E tgt \in Targets : CallGetStatus(tgt)
    \/ \E tgt \in Targets : CallGetTimestamp(tgt)
    \/ \E tgt \in Targets : CallStringV0(tgt)
    \/ \E tgt \in Targets : CallJSONV0(tgt)
    \/ CallGetOwner
    \/ CallUnmarshal

Spec == Init /\ [][Next]_vars

TypeOK ==
    /\ typ \in {"HealthInfoV0", "HealthInfoV2", "SysProcess"}
    /\ ret.kind \in {"none", "text", "panic", "string", "status", "time"}
    /\ decoded.ok \in BOOLEAN

----------------------------------------------------------------------------
(* Properties.                                                             *)

\* The JSON value of the text the last call returned.
Doc == Parse(ret.val)

Rendered == op.name = "String" /\ ret.kind = "text"

\* C1: GetStatus() returns "error" exactly when the top-level Error string
\* is non-empty and "success" otherwise; it returns nothing else.
C1_StatusIffError ==
    op.name = "GetStatus" =>
        /\ ret.val \in {"error", "success"}
        /\ ret.val = "error" <=> Len(Subject(op.tgt).Error) > 0

C1_Witness ==
    /\ op.name = "GetStatus"
    /\ op.tgt = "info"
    /\ info.Error = <<"a">>
    /\ ret.val = "error"

HealthInfoV2Reports == Reports("HealthInfoV2")

\* C2: GetStatus() and GetError() depend on the top-level Error alone: every
\* report with the same Error gives the result just returned, and
\* GetError() is that Error string, whatever the other fields hold.
C2_DependsOnlyOnError ==
    /\ op.name = "GetStatus" =>
           \A r \in HealthInfoV2Reports :
               r.Error = Subject(op.tgt).Error => GetStatus(r) = ret.val
    /\ op.name = "GetError" =>
           /\ ret.val = Subject(op.tgt).Error
           /\ \A r \in HealthInfoV2Reports :
                  r.Error = Subject(op.tgt).Error => GetError(r) = ret.val

C2_Witness ==
    /\ op.name = "GetStatus"
    /\ op.tgt = "info"
    /\ info.Error = <<>>
    /\ info.Sys.Error # <<>>
    /\ ret.val = "success"

\* A value the text format carries unchanged: strings of valid UTF-8, UTC
\* timestamps without a monotonic reading, slices that are nil or non-empty.
RECURSIVE Canonical(_, _, _)
Canonical(kind, elem, v) ==
    CASE kind = "string" -> \A i \in 1..Len(v) : v[i] # "xFF"
      [] kind = "time" -> ~v.mono /\ v.loc = "UTC"
      [] kind = "slice" ->
           \/ v.nil
           \/ /\ Len(v.e) > 0
              /\ \A j \in 1..Len(v.e) : Canonical(ElemKind(elem), elem, v.e[j])
      [] kind = "struct" ->
           \A i \in 1..Len(Fields(elem)) :
               LET f == Fields(elem)[i] IN Canonical(f.kind, f.elem, v[f.name])
      [] OTHER -> TRUE

IsZeroValue(kind, elem, v) ==
    IF kind = "slice" THEN Len(v.e) = 0 ELSE v = ZeroValue(kind, elem)

RECURSIVE OmitsEmpty(_, _, _)
OmitsEmpty(T, v, node) ==
    \A i \in 1..Len(Fields(T)) :
        LET f == Fields(T)[i] IN
        /\ (f.omitempty /\ IsZeroValue(f.kind, f.elem, v[f.name])) => ~HasKey(node, f.key)
        /\ (HasKey(node, f.key) /\ f.kind = "struct") =>
               OmitsEmpty(f.elem, v[f.name], Member(node, f.key))
        /\ (HasKey(node, f.key) /\ f.kind = "slice" /\ ElemKind(f.elem) = "struct") =>
               \A j \in 1..Len(v[f.name].e) :
                   OmitsEmpty(f.elem, v[f.name].e[j], Member(node, f.key).m[j].v)

\* C4: in the compact output, at every nesting level, a field tagged
\* omitempty is absent whenever it holds its zero or empty value, the
\* struct-typed and timestamp fields included.
C4_OmitEmpty ==
    Rendered => OmitsEmpty(typ, Subject(op.tgt), Doc)

\* C5: JSON() and String() of the same record carry the same content: both
\* fail or both return text, and the indented text is the compact text with
\* whitespace added, denoting the same JSON value.
C5_IndentedSameContent ==
    [][(op.name = "String" /\ op'.name = "JSON" /\ op'.tgt = op.tgt) =>
          /\ ret'.kind = ret.kind
          /\ ret.kind = "text" =>
                /\ StripWS(ret'.val) = ret.val
                /\ Parse(ret'.val) = Parse(ret.val)]_vars

C5_Witness ==
    /\ op.name = "JSON"
    /\ ret.kind = "text"
    /\ info = Full("struct", typ)
    /\ Len(StripWS(ret.val)) < Len(ret.val)

\* C6: String() and JSON() never reach the panic branch.
C6_NeverPanics ==
    op.name \in {"String", "JSON"} => ret.kind # "panic"

PerNodeLists == {"CPUInfo", "DiskHwInfo", "OsInfo", "MemInfo", "ProcInfo"}

HasData(list, r) == list = "ProcInfo" /\ Len(r.Processes.e) > 0

PerNodeKey(list) ==
    (CHOOSE i \in 1..Len(SysHealthInfo) : SysHealthInfo[i].name = list)

\* C7 (as stated): every per-node record of a report that a call is made
\* on holds data or a non-empty Error.
C7_DataOrError ==
    (typ = "HealthInfoV0" /\ op.name # "new") =>
        \A list \in PerNodeLists : \A j \in 1..Len(Subject(op.tgt).Sys[list].e) :
            LET r == Subject(op.tgt).Sys[list].e[j] IN
            Len(r.Error) > 0 \/ HasData(list, r)

\* C7 (as amended): a per-node record may hold neither data nor an error;
\* its JSON object always has addr, has error exactly when Error is
\* non-empty and has processes exactly when Processes is non-empty.
C7_PerNodeEncoding ==
    (Rendered /\ typ = "HealthInfoV0") =>
        \A list \in PerNodeLists :
            LET recs == Subject(op.tgt).Sys[list].e
                key == SysHealthInfo[PerNodeKey(list)].key
            IN \A j \in 1..Len(recs) :
                   LET r == recs[j]
                       n == Member(Member(Doc, "sys"), key).m[j].v
                   IN /\ HasKey(n, "addr")
                      /\ HasKey(n, "error") <=> Len(r.Error) > 0
                      /\ HasKey(n, "processes") <=> HasData(list, r)

C7_Witness ==
    /\ Rendered
    /\ typ = "HealthInfoV0"
    /\ op.tgt = "info"
    /\ info.Sys.CPUInfo.e = <<[Addr |-> <<"a">>, Error |-> <<>>]>>
    /\ Len(Member(Member(Doc, "sys"), "cpus").m[1].v.m) = 1

\* C8: no call changes a field of the record it is made on, and a call
\* repeated on the same record returns what it returned before.
C8_Immutable ==
    [][/\ info' = info
       /\ typ' = typ
       /\ op'.name # "Unmarshal" => decoded' = decoded
       /\ op' = op => ret' = ret]_vars

C8_Witness ==
    /\ op.name = "GetStatus"
    /\ op.tgt = "info"
    /\ decoded.ok
    /\ info = Full("struct", "HealthInfoV2")

SixKeys == {"avg", "max", "min", "percentile_50", "percentile_90", "percentile_99"}

\* The keys each record's JSON object must always carry.
RequiredKeys(T) ==
    CASE T = "HealthInfoV2" -> {"version"}
      [] T \in {"ServerCPUInfo", "ServerDiskHwInfo", "ServerOsInfo",
                "ServerMemInfo", "ServerProcInfo"} -> {"addr"}
      [] T = "DrivePerfInfo" -> {"path"}
      [] T = "SysProcess" -> {"pid"}
      [] T \in {"Latency", "Throughput"} -> SixKeys
      [] OTHER -> {}

RECURSIVE RequiredPresent(_, _)
RequiredPresent(T, node) ==
    /\ \A key \in RequiredKeys(T) : HasKey(node, key)
    /\ \A i \in 1..Len(Fields(T)) :
        LET f == Fields(T)[i] IN
        /\ (HasKey(node, f.key) /\ f.kind = "struct") =>
               RequiredPresent(f.elem, Member(node, f.key))
        /\ (HasKey(node, f.key) /\ f.kind = "slice" /\ ElemKind(f.elem) = "struct") =>
               \A j \in 1..Len(Member(node, f.key).m) :
                   RequiredPresent(f.elem, Member(node, f.key).m[j].v)

\* C9: a field not tagged omitempty is in the compact output even at its
\* zero value: version, addr, path, pid and the six keys of every emitted
\* Latency and Throughput.
C9_RequiredPresent ==
    Rendered => RequiredPresent(typ, Doc)

C9_Witness ==
    /\ Rendered
    /\ typ = "HealthInfoV2"
    /\ info.Version = <<>>
    /\ info.Perf.Drives.e =
           <<[Zero("DrivePerfInfos") EXCEPT
                 !.SerialPerf = Slice(<<Zero("DrivePerfInfo")>>)]>>

\* C10 (as amended): the compact output of a HealthInfoV2 has a top-level
\* "error" key exactly when GetStatus() is "error"; the report decoded from
\* it has the same GetStatus(), and its GetError() is the original's with
\* each invalid UTF-8 byte replaced by U+FFFD.
C10_ErrorKeyIffStatus ==
    typ = "HealthInfoV2" =>
        /\ Rendered => (HasKey(Doc, "error") <=> GetStatus(Subject(op.tgt)) = "error")
        /\ (op.name = "GetStatus" /\ op.tgt = "decoded") => ret.val = GetStatus(info)
        /\ (op.name = "GetError" /\ op.tgt = "decoded") => ret.val = Coerce(GetError(info))

C10_Witness ==
    /\ typ = "HealthInfoV2"
    /\ op.name = "GetStatus"
    /\ op.tgt = "decoded"
    /\ info.Error # <<>>
    /\ ret.val = "error"

\* C10 (as stated): the report decoded from String() has the same
\* GetError() as the original.
C10_SameError ==
    (typ = "HealthInfoV2" /\ op.name = "GetError" /\ op.tgt = "decoded") =>
        ret.val = GetError(info)

====
